---- MODULE Spec2Model ----
(***************************************************************************)
(* rend3: the double-buffered instruction queue (instruction.rs), the      *)
(* queueing API of Renderer (renderer/mod.rs), the object manager          *)
(* (resources/object.rs) on top of the generic resource registry, and the  *)
(* GPU culling pass (renderer/passes/culling.rs).                          *)
(***************************************************************************)
EXTENDS Integers, Sequences, FiniteSets, TLC

(* ----------------------------- bounds ---------------------------------- *)
\* API calls the application threads issue in one behaviour.
MaxCalls == 4
\* API calls of the single application thread of the object life cycle.
MaxLifecycleCalls == 6
\* Most meshes and materials the single-threaded application adds.
MaxMeshes == 2
MaxMaterials == 1
\* Calls made on the managers directly, the slots of the object registry
\* they may use and the largest generation of a handle they pass.
MaxManagerCalls == 7
MaxSlots == 2
MaxGen == 1
\* API calls of the application threads whose locks are followed.
MaxLockCalls == 3
\* Largest object count handed to the culling pass.
MaxCullObjects == 3
\* Largest device-reported subgroup size.
MaxSubgroup == 3
\* Largest value the visible-count buffer is followed to over repeated runs.
MaxVisibleCount == 4
\* Slots of the object registry whose compaction is followed, and the
\* largest generation a slot is allocated in there.
MaxCompactSlots == 3
MaxCompactGen == 0
\* API calls raced by two render tasks.
MaxOverlapCalls == 3
\* Largest subgroup size, and the distance from 0 and from the largest value
\* of a 16-bit limb up to which the limbs of a 32-bit object count are drawn.
MaxArithSubgroup == 4
EdgeWidth == 3

(* ------------------------- program constants --------------------------- *)
CubeVertexCount == 24
CubeIndexCount == 36
SIZE_OF_OUTPUT_DATA == 7 * 16
SIZE_OF_INDIRECT_CALL == 5 * 4
SIZE_OF_INDIRECT_COUNT == 4

AppThreads == {"a1", "a2"}
RenderTasks == {"r1"}
\* The mesh the application adds: the example's cube.
MeshData == {"cube"}
\* The transform objects are created with, and the one they are moved to.
ObjectTransforms == {"identity"}
NewTransforms == {"moved"}
OptionValues == {"opt1"}

VertexCount(d) == IF d = "cube" THEN CubeVertexCount ELSE 0
IndexCount(d) == IF d = "cube" THEN CubeIndexCount ELSE 0

(* ------------------------------ handles -------------------------------- *)
Handle(i, g) == [idx |-> i, gen |-> g]
NoHandle == Handle(0, 0)

(* ------------------------- resource registry --------------------------- *)
\* A slot: its generation, its state and the internal value stored in it.
\* "free": reclaimed; "allocated": handle handed out, no value yet;
\* "filled": value inserted; "dead": removed, waiting for remove_all_dead.
Slot(g, s, v) == [gen |-> g, state |-> s, val |-> v]

ResourceRegistry_new == [slots |-> <<>>, free |-> <<>>]

\* The handle allocate() hands out: a freed slot with its generation
\* incremented, or a newly appended slot with generation 0.
AllocHandle(reg) ==
  IF reg.free # <<>>
    THEN Handle(Head(reg.free), reg.slots[Head(reg.free)].gen + 1)
    ELSE Handle(Len(reg.slots) + 1, 0)

ResourceRegistry_allocate(reg, none) ==
  LET h == AllocHandle(reg) IN
  IF reg.free # <<>>
    THEN [slots |-> [reg.slots EXCEPT ![h.idx] = Slot(h.gen, "allocated", none)],
          free |-> Tail(reg.free)]
    ELSE [slots |-> Append(reg.slots, Slot(0, "allocated", none)),
          free |-> reg.free]

\* The handle names a slot of the registry in its current generation.
Current(reg, h) ==
  /\ h.idx \in 1..Len(reg.slots)
  /\ reg.slots[h.idx].gen = h.gen

Allocated(reg, h) ==
  Current(reg, h) /\ reg.slots[h.idx].state \in {"allocated", "filled"}

Live(reg, h) ==
  Current(reg, h) /\ reg.slots[h.idx].state = "filled"

\* insert: associates the value with an allocated handle.
ResourceRegistry_insert(reg, h, v) ==
  IF Allocated(reg, h)
    THEN [reg |-> [reg EXCEPT !.slots[h.idx] = Slot(h.gen, "filled", v)],
          res |-> "ok"]
    ELSE [reg |-> reg, res |-> "InvalidHandle"]

\* remove: marks the slot pending removal; the value stays until compaction.
remove_frees_at_once(reg, h) ==
  IF Allocated(reg, h)
    THEN [reg |-> [slots |-> [reg.slots EXCEPT ![h.idx].state = "free"],
                   free |-> Append(reg.free, h.idx)],
          res |-> "ok"]
    ELSE [reg |-> reg, res |-> "UnknownHandle"]

ResourceRegistry_remove(reg, h) ==
  IF Allocated(reg, h)
    THEN [reg |-> [reg EXCEPT !.slots[h.idx].state = "dead"], res |-> "ok"]
    ELSE [reg |-> reg, res |-> "UnknownHandle"]

\* get / get_mut: the lookup succeeds on a live handle only.
ResourceRegistry_get(reg, h) ==
  IF Live(reg, h) THEN "ok" ELSE "UnknownHandle"

RECURSIVE DeadFrom(_, _)
\* The indices of the slots pending removal, from index i on, in slot order.
DeadFrom(reg, i) ==
  IF i > Len(reg.slots) THEN <<>>
  ELSE IF reg.slots[i].state = "dead"
    THEN <<i>> \o DeadFrom(reg, i + 1)
    ELSE DeadFrom(reg, i + 1)

RECURSIVE HandlesOf(_, _)
HandlesOf(reg, is) ==
  IF is = <<>> THEN <<>>
  ELSE <<Handle(Head(is), reg.slots[Head(is)].gen)>> \o HandlesOf(reg, Tail(is))

\* remove_all_dead: every slot pending removal is handed to the callback
\* and freed for reuse; the other slots keep their place.
remove_all_dead_swap_remove(reg, none) ==
  LET dead == DeadFrom(reg, 1)
      n == Len(reg.slots)
      hole == IF dead = <<>> THEN 0 ELSE Head(dead)
  IN [reg |-> [slots |-> [i \in 1..n |->
                            IF hole \in 1..(n - 1) /\ i = hole THEN reg.slots[n]
                            ELSE IF hole \in 1..(n - 1) /\ i = n
                              THEN Slot(reg.slots[n].gen, "free", none)
                            ELSE IF reg.slots[i].state = "dead"
                              THEN Slot(reg.slots[i].gen, "free", none)
                              ELSE reg.slots[i]],
               free |-> reg.free \o dead],
      callbacks |-> HandlesOf(reg, dead)]

ResourceRegistry_remove_all_dead(reg, none) ==
  LET dead == DeadFrom(reg, 1) IN
  [reg |-> [slots |-> [i \in 1..Len(reg.slots) |->
                         IF reg.slots[i].state = "dead"
                           THEN Slot(reg.slots[i].gen, "free", none)
                           ELSE reg.slots[i]],
            free |-> reg.free \o dead],
   callbacks |-> HandlesOf(reg, dead)]

RECURSIVE ValuesFrom(_, _, _)
\* values(): the stored values in slot order.
ValuesFrom(reg, i, none) ==
  IF i > Len(reg.slots) THEN <<>>
  ELSE IF reg.slots[i].val # none
    THEN <<reg.slots[i].val>> \o ValuesFrom(reg, i + 1, none)
    ELSE ValuesFrom(reg, i + 1, none)

ResourceRegistry_values(reg, none) == ValuesFrom(reg, 1, none)

RECURSIVE ValueHandlesFrom(_, _, _)
\* The handles of the slots values() reads, in the same order.
ValueHandlesFrom(reg, i, none) ==
  IF i > Len(reg.slots) THEN <<>>
  ELSE IF reg.slots[i].val # none
    THEN <<Handle(i, reg.slots[i].gen)>> \o ValueHandlesFrom(reg, i + 1, none)
    ELSE ValueHandlesFrom(reg, i + 1, none)

\* Every handle the registry has handed out and not yet reclaimed.
LiveHandles(reg) ==
  {Handle(i, reg.slots[i].gen) : i \in {j \in 1..Len(reg.slots) :
                                         reg.slots[j].state # "free"}}

(* ------------------------------ payloads ------------------------------- *)
Range(a, b) == [start |-> a, end |-> b]

\* The public Object: handles of its mesh and material, and its transform.
Object(m, mat, t) == [mesh |-> m, material |-> mat, transform |-> t]
NoObject == Object(NoHandle, NoHandle, "none")

\* The mesh manager's internal record of a mesh.
InternalMesh(vr, ir, s) ==
  [vertex_range |-> vr, index_range |-> ir, bounding_sphere |-> s]
NoMesh == InternalMesh(Range(0, 0), Range(0, 0), "none")

InternalObject(mat, t, s, si, c, vo) ==
  [material |-> mat, transform |-> t, sphere |-> s,
   start_idx |-> si, count |-> c, vertex_offset |-> vo]
NoInternalObject == InternalObject(NoHandle, "none", "none", 0, 0, 0)

(* ---------------------------- instructions ----------------------------- *)
\* One queued instruction; id is its rank in the order of the pushes.
Instruction(i, o, h, d, obj, t) ==
  [id |-> i, op |-> o, handle |-> h, data |-> d, object |-> obj, transform |-> t]
NoInstruction == Instruction(0, "none", NoHandle, "none", NoObject, "none")

(* ------------------------------ managers ------------------------------- *)
\* Mesh manager: a registry of internal meshes over a shared vertex/index
\* arena; a filled mesh takes the next ranges of the arena.
MeshManager_new == [registry |-> ResourceRegistry_new, vtop |-> 0, itop |-> 0]

MeshManager_fill(mm, h, d) ==
  LET rec == InternalMesh(Range(mm.vtop, mm.vtop + VertexCount(d)),
                          Range(mm.itop, mm.itop + IndexCount(d)), d)
      ins == ResourceRegistry_insert(mm.registry, h, rec)
  IN IF ins.res = "ok"
       THEN [mgr |-> [registry |-> ins.reg,
                      vtop |-> mm.vtop + VertexCount(d),
                      itop |-> mm.itop + IndexCount(d)],
             res |-> "ok"]
       ELSE [mgr |-> mm, res |-> ins.res]

\* internal_data: the internal record of a live mesh.
MeshManager_internal_data(mm, h) ==
  IF Live(mm.registry, h) THEN mm.registry.slots[h.idx].val ELSE NoMesh

\* Texture and material managers: a registry of the payloads.
PayloadManager_new == [registry |-> ResourceRegistry_new]

PayloadManager_fill(pm, h, d) ==
  LET ins == ResourceRegistry_insert(pm.registry, h, d)
  IN [mgr |-> [pm EXCEPT !.registry = ins.reg], res |-> ins.res]

\* remove, on any manager: the registry's remove.
Manager_remove(m, h) ==
  LET rem == ResourceRegistry_remove(m.registry, h)
  IN [mgr |-> [m EXCEPT !.registry = rem.reg], res |-> rem.res]

\* allocate on a mesh, texture or material manager.
Manager_allocate(m, none) ==
  [mgr |-> [m EXCEPT !.registry = ResourceRegistry_allocate(m.registry, none)],
   handle |-> AllocHandle(m.registry)]

\* remove_all_dead on a mesh, texture or material manager.
Manager_remove_all_dead(m, none) ==
  [m EXCEPT !.registry = ResourceRegistry_remove_all_dead(m.registry, none).reg]

ObjectManager_new == [registry |-> ResourceRegistry_new]

allocate_inserts_default(om) ==
  [mgr |-> [om EXCEPT !.registry =
              LET h == AllocHandle(om.registry)
                  reg == ResourceRegistry_allocate(om.registry, NoInternalObject)
              IN [reg EXCEPT !.slots[h.idx] =
                    Slot(h.gen, "filled",
                         InternalObject(NoHandle, "identity", "none", 0, 0, 0))]],
   handle |-> AllocHandle(om.registry)]

ObjectManager_allocate_peek(om) ==
  [mgr |-> om, handle |-> AllocHandle(om.registry)]

ObjectManager_allocate(om) ==
  [mgr |-> [om EXCEPT !.registry =
              ResourceRegistry_allocate(om.registry, NoInternalObject)],
   handle |-> AllocHandle(om.registry)]

fill_keeps_prior_value(om, h, object, mm) ==
  LET mesh == MeshManager_internal_data(mm, object.mesh)
      shader_object ==
        InternalObject(object.material, object.transform,
                       mesh.bounding_sphere,
                       mesh.index_range.start,
                       mesh.index_range.end - mesh.index_range.start,
                       mesh.vertex_range.start)
      ins == ResourceRegistry_insert(om.registry, h, shader_object)
  IN IF ~Live(mm.registry, object.mesh)
       THEN [mgr |-> om, res |-> "UnknownHandle", returned |-> "unit"]
       ELSE IF Live(om.registry, h)
         THEN [mgr |-> om, res |-> "ok", returned |-> "unit"]
         ELSE [mgr |-> [om EXCEPT !.registry = ins.reg], res |-> ins.res,
               returned |-> "unit"]

fill_count_from_range_end(om, h, object, mm) ==
  LET mesh == MeshManager_internal_data(mm, object.mesh)
      shader_object ==
        InternalObject(object.material, object.transform,
                       mesh.bounding_sphere,
                       mesh.index_range.start,
                       mesh.index_range.end,
                       mesh.vertex_range.start)
      ins == ResourceRegistry_insert(om.registry, h, shader_object)
  IN IF ~Live(mm.registry, object.mesh)
       THEN [mgr |-> om, res |-> "UnknownHandle", returned |-> "unit"]
       ELSE [mgr |-> [om EXCEPT !.registry = ins.reg], res |-> ins.res,
             returned |-> "unit"]

\* fill: reads the internal record of the object's mesh and inserts the
\* derived internal object; fails when the mesh has no live record. The
\* method has no return value: res is the outcome inside the registry,
\* returned is what the caller gets.
ObjectManager_fill(om, h, object, mm) ==
  LET mesh == MeshManager_internal_data(mm, object.mesh)
      shader_object ==
        InternalObject(object.material, object.transform,
                       mesh.bounding_sphere,
                       mesh.index_range.start,
                       mesh.index_range.end - mesh.index_range.start,
                       mesh.vertex_range.start)
      ins == ResourceRegistry_insert(om.registry, h, shader_object)
  IN IF ~Live(mm.registry, object.mesh)
       THEN [mgr |-> om, res |-> "UnknownHandle", returned |-> "unit"]
       ELSE [mgr |-> [om EXCEPT !.registry = ins.reg], res |-> ins.res,
             returned |-> "unit"]

ready_values_before_compaction(om) ==
  LET rad == ResourceRegistry_remove_all_dead(om.registry, NoInternalObject)
  IN [mgr |-> [om EXCEPT !.registry = rad.reg],
      out |-> ResourceRegistry_values(om.registry, NoInternalObject),
      callbacks |-> rad.callbacks]

\* ready: compacts the registry, then copies the values out.
ObjectManager_ready(om) ==
  LET rad == ResourceRegistry_remove_all_dead(om.registry, NoInternalObject)
  IN [mgr |-> [om EXCEPT !.registry = rad.reg],
      out |-> ResourceRegistry_values(rad.reg, NoInternalObject),
      callbacks |-> rad.callbacks]

set_object_transform_resets_record(om, h, transform) ==
  IF ResourceRegistry_get(om.registry, h) = "ok"
    THEN [mgr |-> [om EXCEPT !.registry.slots[h.idx].val =
                     [NoInternalObject EXCEPT !.transform = transform]],
          res |-> "ok", returned |-> "unit"]
    ELSE [mgr |-> om, res |-> "UnknownHandle", returned |-> "unit"]

set_object_transform_by_index(om, h, transform) ==
  IF h.idx \in 1..Len(om.registry.slots)
     /\ om.registry.slots[h.idx].state = "filled"
    THEN [mgr |-> [om EXCEPT !.registry.slots[h.idx].val.transform = transform],
          res |-> "ok", returned |-> "unit"]
    ELSE [mgr |-> om, res |-> "UnknownHandle", returned |-> "unit"]

\* set_object_transform: overwrites the transform of the live slot; it
\* writes through what get_mut gives and has no return value.
ObjectManager_set_object_transform(om, h, transform) ==
  IF ResourceRegistry_get(om.registry, h) = "ok"
    THEN [mgr |-> [om EXCEPT !.registry.slots[h.idx].val.transform = transform],
          res |-> "ok", returned |-> "unit"]
    ELSE [mgr |-> om, res |-> "UnknownHandle", returned |-> "unit"]

(* ------------------------- instruction application -------------------- *)
\* The managers and options the render loop applies instructions to.
Scene(mm, tm, matm, om, o) ==
  [mesh |-> mm, texture |-> tm, material |-> matm, object |-> om, options |-> o]

NoScene == Scene(MeshManager_new, PayloadManager_new, PayloadManager_new,
                 ObjectManager_new, "none")

\* One instruction applied to the managers: the new scene and the outcome.
ApplyInstruction(i, s) ==
  CASE i.op = "AddMesh" ->
         LET r == MeshManager_fill(s.mesh, i.handle, i.data)
         IN [scene |-> [s EXCEPT !.mesh = r.mgr], res |-> r.res,
             returned |-> r.res]
    [] i.op = "RemoveMesh" ->
         LET r == Manager_remove(s.mesh, i.handle)
         IN [scene |-> [s EXCEPT !.mesh = r.mgr], res |-> r.res,
             returned |-> r.res]
    [] i.op = "AddTexture" ->
         LET r == PayloadManager_fill(s.texture, i.handle, i.data)
         IN [scene |-> [s EXCEPT !.texture = r.mgr], res |-> r.res,
             returned |-> r.res]
    [] i.op = "RemoveTexture" ->
         LET r == Manager_remove(s.texture, i.handle)
         IN [scene |-> [s EXCEPT !.texture = r.mgr], res |-> r.res,
             returned |-> r.res]
    [] i.op = "AddMaterial" ->
         LET r == PayloadManager_fill(s.material, i.handle, i.data)
         IN [scene |-> [s EXCEPT !.material = r.mgr], res |-> r.res,
             returned |-> r.res]
    [] i.op = "RemoveMaterial" ->
         LET r == Manager_remove(s.material, i.handle)
         IN [scene |-> [s EXCEPT !.material = r.mgr], res |-> r.res,
             returned |-> r.res]
    [] i.op = "AddObject" ->
         LET r == ObjectManager_fill(s.object, i.handle, i.object, s.mesh)
         IN [scene |-> [s EXCEPT !.object = r.mgr], res |-> r.res,
             returned |-> r.returned]
    [] i.op = "SetObjectTransform" ->
         LET r == ObjectManager_set_object_transform(s.object, i.handle, i.transform)
         IN [scene |-> [s EXCEPT !.object = r.mgr], res |-> r.res,
             returned |-> r.returned]
    [] i.op = "RemoveObject" ->
         LET r == Manager_remove(s.object, i.handle)
         IN [scene |-> [s EXCEPT !.object = r.mgr], res |-> r.res,
             returned |-> r.res]
    [] i.op = "SetOptions" ->
         [scene |-> [s EXCEPT !.options = i.data], res |-> "ok", returned |-> "ok"]

(* -------------------------------- state -------------------------------- *)
VARIABLES
  producer,          \* InstructionStreamPair.producer
  consumer,          \* InstructionStreamPair.consumer
  producerLock,      \* holder of the producer mutex, "" when free
  consumerLock,      \* holder of the consumer mutex, "" when free
  managerLock,       \* holder of the managers' write locks, "" when free
  readers,           \* the threads holding a manager's read lock
  mesh_manager, texture_manager, material_manager, object_manager,
  options,           \* Renderer.options
  pc,                \* per application thread: "idle" or "push"
  pend,              \* per application thread: the instruction to push
  calls,             \* API calls started so far
  budget,            \* API calls the behaviour may start
  issued,            \* per kind: the handles add_* has returned
  render_pc,         \* per render task: its place in render_loop
  drainPos,          \* instructions of the consumer list already drained
  readyOut,          \* the object list ready() returned last
  pushed,            \* history: number of pushes
  drained,           \* history: ids of the instructions applied, in order
  lastApplied,       \* history: the instruction applied last and its outcome
  snapshot,          \* history: the consumer list as the frame's swap left it
  frameStart,        \* history: the managers as the frame's drain found them
  callbacks,         \* history: object handles handed to the teardown callback
  outstanding,       \* history: per kind, handles allocated and not removed
  removed,           \* history: object handles whose removal was applied
  filledMeshes       \* history: mesh handles whose AddMesh was applied

queueVars == <<producer, consumer, producerLock, consumerLock>>
managerVars == <<mesh_manager, texture_manager, material_manager,
                 object_manager, options>>
appVars == <<pc, pend, calls, budget, issued>>
renderVars == <<render_pc, drainPos, readyOut>>
histVars == <<pushed, drained, lastApplied, snapshot, frameStart, callbacks, outstanding,
              removed, filledMeshes>>
sceneVars == <<queueVars, managerLock, readers, managerVars, appVars, renderVars, histVars>>

Kinds == {"mesh", "texture", "material", "object"}

NothingApplied ==
  [instr |-> NoInstruction, res |-> "none", returned |-> "none", changed |-> FALSE]

SceneInitWith(b, tasks) ==
  /\ budget = b
  /\ producer = <<>>
  /\ consumer = <<>>
  /\ producerLock = ""
  /\ consumerLock = ""
  /\ managerLock = ""
  /\ readers = {}
  /\ mesh_manager = MeshManager_new
  /\ texture_manager = PayloadManager_new
  /\ material_manager = PayloadManager_new
  /\ object_manager = ObjectManager_new
  /\ options = "opt0"
  /\ pc = [t \in AppThreads |-> "idle"]
  /\ pend = [t \in AppThreads |-> NoInstruction]
  /\ calls = 0
  /\ issued = [k \in Kinds |-> {}]
  /\ render_pc = [k \in tasks |-> "idle"]
  /\ drainPos = 0
  /\ readyOut = <<>>
  /\ pushed = 0
  /\ drained = <<>>
  /\ lastApplied = NothingApplied
  /\ snapshot = <<>>
  /\ frameStart = NoScene
  /\ callbacks = <<>>
  /\ outstanding = [k \in Kinds |-> <<>>]
  /\ removed = {}
  /\ filledMeshes = {}

SceneInit(b) == SceneInitWith(b, RenderTasks)

\* The culling pass (CullingPass, CullingPassData and the GPU buffers).
VARIABLES
  cull_pc,             \* "none", "created", "prepared", "running", "done"
  subgroup_size,       \* CullingPass.subgroup_size
  object_count,        \* CullingPassData.object_count
  output_buffer_size,  \* bytes of the output buffer
  indirect_buffer_size,\* bytes of the indirect buffer
  count_buffer_size,   \* bytes of the count buffer
  count_buffer,        \* the value of the visible-count buffer
  indirect_buffer,     \* per slot: the object written to it, -1 when none
  push_constant,       \* the object count pushed to the shader
  dispatched,          \* the groups dispatched, per dimension
  visible,             \* the objects that pass the visibility test
  invocation,          \* per invocation of the dispatch: its progress
  tested,              \* history: per object, the times it was tested
  cull_error           \* a write fell outside the buffers

cullVars == <<cull_pc, subgroup_size, object_count, output_buffer_size,
              indirect_buffer_size, count_buffer_size, count_buffer,
              indirect_buffer, push_constant, dispatched, visible, invocation,
              tested, cull_error>>

vars == <<sceneVars, cullVars>>

CullInit ==
  /\ cull_pc = "none"
  /\ subgroup_size = 0
  /\ object_count = 0
  /\ output_buffer_size = 0
  /\ indirect_buffer_size = 0
  /\ count_buffer_size = 0
  /\ count_buffer = 0
  /\ indirect_buffer = <<>>
  /\ push_constant = 0
  /\ dispatched = <<0, 0, 0>>
  /\ visible = {}
  /\ invocation = <<>>
  /\ tested = <<>>
  /\ cull_error = FALSE

Init == SceneInit(MaxCalls) /\ CullInit

(* --------------------------- the queueing API -------------------------- *)
\* A thread may start a call.
Begin(t) == pc[t] = "idle" /\ calls < budget

\* The handles the application holds: an add_* returns its handle after the
\* push, not when the handle is allocated.
IssuedAtReturn(iss, kind, h) == [iss EXCEPT ![kind] = @ \cup {h}]

handle_returned_before_push(iss, kind, h) == [iss EXCEPT ![kind] = @ \cup {h}]

IssuedAtAllocate(iss, kind, h) == iss

\* First statement of an add_*: the handle is allocated under the manager's
\* read lock, which a writer excludes.
AllocateStep(t, kind, instr) ==
  /\ Begin(t)
  /\ managerLock = ""
  /\ pend' = [pend EXCEPT ![t] = instr]
  /\ pc' = [pc EXCEPT ![t] = "push"]
  /\ calls' = calls + 1
  /\ outstanding' = [outstanding EXCEPT ![kind] = Append(@, instr.handle)]
  /\ issued' = IssuedAtAllocate(issued, kind, instr.handle)
  /\ UNCHANGED <<queueVars, managerLock, readers, options, budget, renderVars,
                 pushed, drained, lastApplied, snapshot, frameStart, callbacks, removed,
                 filledMeshes, cullVars>>

\* The list an API call pushes onto: the producer list.
push_front(produce, consume, instr) ==
  [produce |-> <<instr>> \o produce, consume |-> consume]

push_onto_consumer(produce, consume, instr) ==
  [produce |-> produce, consume |-> Append(consume, instr)]

push(produce, consume, instr) ==
  [produce |-> Append(produce, instr), consume |-> consume]

\* producer.lock().push(instruction)
Push(instr) ==
  /\ producerLock = ""
  /\ LET p == push(producer, consumer, [instr EXCEPT !.id = pushed + 1])
     IN producer' = p.produce /\ consumer' = p.consume
  /\ pushed' = pushed + 1

\* Second statement of an add_*: the push, after which the handle is returned.
PushStep(t, kind, op) ==
  /\ pc[t] = "push"
  /\ pend[t].op = op
  /\ Push(pend[t])
  /\ issued' = IssuedAtReturn(issued, kind, pend[t].handle)
  /\ pc' = [pc EXCEPT ![t] = "idle"]
  /\ pend' = [pend EXCEPT ![t] = NoInstruction]
  /\ UNCHANGED <<consumerLock, producerLock, managerLock, readers, managerVars,
                 calls, budget, renderVars, drained, lastApplied, snapshot, frameStart,
                 callbacks, outstanding, removed, filledMeshes, cullVars>>

\* A remove_* or set_*: the push is the whole call.
QueueCall(t, instr) ==
  /\ Begin(t)
  /\ Push(instr)
  /\ calls' = calls + 1
  /\ UNCHANGED <<consumerLock, producerLock, managerLock, readers, managerVars,
                 pc, pend, budget, issued, renderVars, drained, lastApplied,
                 snapshot, frameStart, callbacks, outstanding, removed, filledMeshes,
                 cullVars>>

add_mesh(t) ==
  \/ \E d \in MeshData :
       LET a == Manager_allocate(mesh_manager, NoMesh) IN
       /\ AllocateStep(t, "mesh",
                       Instruction(0, "AddMesh", a.handle, d, NoObject, "none"))
       /\ mesh_manager' = a.mgr
       /\ UNCHANGED <<texture_manager, material_manager, object_manager>>
  \/ PushStep(t, "mesh", "AddMesh")

remove_mesh(t) ==
  \E h \in issued["mesh"] :
    QueueCall(t, Instruction(0, "RemoveMesh", h, "none", NoObject, "none"))

add_texture(t) ==
  \/ LET a == Manager_allocate(texture_manager, "none") IN
     /\ AllocateStep(t, "texture",
                     Instruction(0, "AddTexture", a.handle, "tex", NoObject, "none"))
     /\ texture_manager' = a.mgr
     /\ UNCHANGED <<mesh_manager, material_manager, object_manager>>
  \/ PushStep(t, "texture", "AddTexture")

remove_texture(t) ==
  \E h \in issued["texture"] :
    QueueCall(t, Instruction(0, "RemoveTexture", h, "none", NoObject, "none"))

add_material(t) ==
  \/ LET a == Manager_allocate(material_manager, "none") IN
     /\ AllocateStep(t, "material",
                     Instruction(0, "AddMaterial", a.handle, "mat", NoObject, "none"))
     /\ material_manager' = a.mgr
     /\ UNCHANGED <<mesh_manager, texture_manager, object_manager>>
  \/ PushStep(t, "material", "AddMaterial")

remove_material(t) ==
  \E h \in issued["material"] :
    QueueCall(t, Instruction(0, "RemoveMaterial", h, "none", NoObject, "none"))

\* The object is built from handles add_mesh and add_material returned.
add_object(t) ==
  \/ \E m \in issued["mesh"], mat \in issued["material"], tr \in ObjectTransforms :
       LET a == ObjectManager_allocate(object_manager) IN
       /\ AllocateStep(t, "object",
                       Instruction(0, "AddObject", a.handle, "none",
                                   Object(m, mat, tr), "none"))
       /\ object_manager' = a.mgr
       /\ UNCHANGED <<mesh_manager, texture_manager, material_manager>>
  \/ PushStep(t, "object", "AddObject")

set_object_transform(t) ==
  \E h \in issued["object"], tr \in NewTransforms :
    QueueCall(t, Instruction(0, "SetObjectTransform", h, "none", NoObject, tr))

remove_object(t) ==
  \E h \in issued["object"] :
    QueueCall(t, Instruction(0, "RemoveObject", h, "none", NoObject, "none"))

set_options(t) ==
  \E o \in OptionValues :
    QueueCall(t, Instruction(0, "SetOptions", NoHandle, o, NoObject, "none"))

(* ----------------------------- render loop ----------------------------- *)
RECURSIVE RemoveOne(_, _)
\* The sequence without the first occurrence of x.
RemoveOne(q, x) ==
  IF q = <<>> THEN <<>>
  ELSE IF Head(q) = x THEN Tail(q)
  ELSE <<Head(q)>> \o RemoveOne(Tail(q), x)

KindOf(op) ==
  CASE op \in {"AddMesh", "RemoveMesh"} -> "mesh"
    [] op \in {"AddTexture", "RemoveTexture"} -> "texture"
    [] op \in {"AddMaterial", "RemoveMaterial"} -> "material"
    [] OTHER -> "object"

\* mem::swap of the two locked lists.
mem_swap_one(produce, consume) ==
  IF produce = <<>>
    THEN [produce |-> consume, consume |-> produce]
    ELSE [produce |-> consume \o Tail(produce), consume |-> <<Head(produce)>>]

mem_swap_clone(produce, consume) == [produce |-> produce, consume |-> produce]

mem_swap(produce, consume) == [produce |-> consume, consume |-> produce]

\* render(): spawns a render_loop task.
render(k) ==
  /\ render_pc[k] = "idle"
  /\ render_pc' = [render_pc EXCEPT ![k] = "spawned"]
  /\ UNCHANGED <<queueVars, managerLock, readers, managerVars, appVars, drainPos,
                 readyOut, histVars, cullVars>>

\* InstructionStreamPair::swap: locks the producer, then the consumer,
\* exchanges the two lists and releases both locks.
swap(k) ==
  \/ /\ render_pc[k] = "spawned"
     /\ producerLock = ""
     /\ producerLock' = k
     /\ render_pc' = [render_pc EXCEPT ![k] = "swap"]
     /\ UNCHANGED <<producer, consumer, consumerLock, managerLock, readers, managerVars,
                    appVars, drainPos, readyOut, histVars, cullVars>>
  \/ /\ render_pc[k] = "swap"
     /\ consumerLock = ""
     /\ producer' = mem_swap(producer, consumer).produce
     /\ consumer' = mem_swap(producer, consumer).consume
     /\ snapshot' = consumer'
     /\ producerLock' = ""
     /\ render_pc' = [render_pc EXCEPT ![k] = "swapped"]
     /\ UNCHANGED <<consumerLock, managerLock, readers, managerVars, appVars, drainPos,
                    readyOut, pushed, drained, lastApplied, frameStart,
                    callbacks, outstanding, removed, filledMeshes, cullVars>>

\* The render loop locks the consumer list and the managers for the frame.
begin_drain(k) ==
  /\ render_pc[k] = "swapped"
  /\ consumerLock = ""
  /\ managerLock = ""
  /\ readers = {}
  /\ consumerLock' = k
  /\ managerLock' = k
  /\ drainPos' = 0
  /\ frameStart' = Scene(mesh_manager, texture_manager, material_manager,
                         object_manager, options)
  /\ render_pc' = [render_pc EXCEPT ![k] = "drain"]
  /\ UNCHANGED <<producer, consumer, producerLock, readers, managerVars,
                 appVars, readyOut, pushed, drained, lastApplied, snapshot,
                 callbacks, outstanding, removed, filledMeshes, cullVars>>

\* The next instruction of the consumer list is applied to its manager.
apply_instruction(k) ==
  /\ render_pc[k] = "drain"
  /\ drainPos < Len(consumer)
  /\ LET i == consumer[drainPos + 1]
         s == Scene(mesh_manager, texture_manager, material_manager,
                    object_manager, options)
         r == ApplyInstruction(i, s)
     IN /\ mesh_manager' = r.scene.mesh
        /\ texture_manager' = r.scene.texture
        /\ material_manager' = r.scene.material
        /\ object_manager' = r.scene.object
        /\ options' = r.scene.options
        /\ drainPos' = drainPos + 1
        /\ drained' = Append(drained, i.id)
        /\ lastApplied' = [instr |-> i, res |-> r.res, returned |-> r.returned,
                           changed |-> r.scene # s]
        /\ outstanding' =
             IF i.op \in {"RemoveMesh", "RemoveTexture", "RemoveMaterial",
                          "RemoveObject"} /\ r.res = "ok"
               THEN [outstanding EXCEPT ![KindOf(i.op)] = RemoveOne(@, i.handle)]
               ELSE outstanding
        /\ removed' = IF i.op = "RemoveObject" /\ r.res = "ok"
                        THEN removed \cup {i.handle} ELSE removed
        /\ filledMeshes' = IF i.op = "AddMesh" /\ r.res = "ok"
                             THEN filledMeshes \cup {i.handle} ELSE filledMeshes
  /\ UNCHANGED <<queueVars, managerLock, readers, appVars, render_pc, readyOut, pushed,
                 snapshot, frameStart, callbacks, cullVars>>

\* The drain ends: the consumer list is left empty and unlocked.
end_drain_keeps_list(k) ==
  /\ render_pc[k] = "drain"
  /\ drainPos = Len(consumer)
  /\ consumerLock' = ""
  /\ drainPos' = 0
  /\ lastApplied' = NothingApplied
  /\ snapshot' = <<>>
  /\ frameStart' = NoScene
  /\ render_pc' = [render_pc EXCEPT ![k] = "compact"]
  /\ UNCHANGED <<producer, consumer, producerLock, managerLock, readers, managerVars,
                 appVars, readyOut, pushed, drained, callbacks, outstanding, removed,
                 filledMeshes, cullVars>>

end_drain(k) ==
  /\ render_pc[k] = "drain"
  /\ drainPos = Len(consumer)
  /\ consumer' = <<>>
  /\ consumerLock' = ""
  /\ drainPos' = 0
  /\ lastApplied' = NothingApplied
  /\ snapshot' = <<>>
  /\ frameStart' = NoScene
  /\ render_pc' = [render_pc EXCEPT ![k] = "compact"]
  /\ UNCHANGED <<producer, producerLock, managerLock, readers, managerVars, appVars,
                 readyOut, pushed, drained, callbacks, outstanding, removed,
                 filledMeshes, cullVars>>

\* Every manager compacts; the object manager's ready() gives the frame's
\* flat object list; the managers are unlocked.
ready(k) ==
  /\ render_pc[k] = "compact"
  /\ LET r == ObjectManager_ready(object_manager)
     IN /\ object_manager' = r.mgr
        /\ readyOut' = r.out
        /\ callbacks' = callbacks \o r.callbacks
  /\ mesh_manager' = Manager_remove_all_dead(mesh_manager, NoMesh)
  /\ texture_manager' = Manager_remove_all_dead(texture_manager, "none")
  /\ material_manager' = Manager_remove_all_dead(material_manager, "none")
  /\ managerLock' = ""
  /\ render_pc' = [render_pc EXCEPT ![k] = "idle"]
  /\ UNCHANGED <<readers, queueVars, options, appVars, drainPos, pushed, drained,
                 lastApplied, snapshot, frameStart, outstanding, removed, filledMeshes,
                 cullVars>>

render_loop(k) ==
  \/ swap(k)
  \/ begin_drain(k)
  \/ apply_instruction(k)
  \/ end_drain(k)
  \/ ready(k)

Next ==
  \/ \E t \in AppThreads :
       \/ add_mesh(t)
       \/ remove_mesh(t)
       \/ add_texture(t)
       \/ remove_texture(t)
       \/ add_material(t)
       \/ remove_material(t)
       \/ add_object(t)
       \/ set_object_transform(t)
       \/ remove_object(t)
       \/ set_options(t)
  \/ \E k \in RenderTasks :
       \/ render(k)
       \/ render_loop(k)

Spec == Init /\ [][Next]_vars

(* The object life cycle: one application thread creating, moving and      *)
(* removing objects over a longer run.                                     *)
MainThread == "a1"

InitLifecycle == SceneInit(MaxLifecycleCalls) /\ CullInit

\* A call that has allocated its handle always goes on to its push.
MayAdd(reg, max) == pc[MainThread] = "push" \/ Len(reg.slots) < max

NextLifecycle ==
  \/ MayAdd(mesh_manager.registry, MaxMeshes) /\ add_mesh(MainThread)
  \/ MayAdd(material_manager.registry, MaxMaterials) /\ add_material(MainThread)
  \/ add_object(MainThread)
  \/ set_object_transform(MainThread)
  \/ remove_object(MainThread)
  \/ \E k \in RenderTasks :
       \/ render(k)
       \/ render_loop(k)

SpecLifecycle == InitLifecycle /\ [][NextLifecycle]_vars

(* ----------------------------- culling pass ---------------------------- *)
\* What prepare creates: the three buffers and the CullingPassData.
prepare_count_not_zeroed(n) ==
  [object_count |-> n,
   output_buffer_size |-> SIZE_OF_OUTPUT_DATA * n,
   indirect_buffer_size |-> SIZE_OF_INDIRECT_CALL * n,
   count_buffer_size |-> SIZE_OF_INDIRECT_COUNT,
   count_buffer |-> 1]

prepare_at_least_one(n) ==
  [object_count |-> n,
   output_buffer_size |-> SIZE_OF_OUTPUT_DATA * (IF n = 0 THEN 1 ELSE n),
   indirect_buffer_size |-> SIZE_OF_INDIRECT_CALL * (IF n = 0 THEN 1 ELSE n),
   count_buffer_size |-> SIZE_OF_INDIRECT_COUNT,
   count_buffer |-> 0]

prepare_sized_short(n) ==
  [object_count |-> n,
   output_buffer_size |-> SIZE_OF_OUTPUT_DATA * n,
   indirect_buffer_size |-> SIZE_OF_INDIRECT_CALL * (IF n = 0 THEN 0 ELSE n - 1),
   count_buffer_size |-> SIZE_OF_INDIRECT_COUNT,
   count_buffer |-> 0]

CullingPass_prepare(n) ==
  [object_count |-> n,
   output_buffer_size |-> SIZE_OF_OUTPUT_DATA * n,
   indirect_buffer_size |-> SIZE_OF_INDIRECT_CALL * n,
   count_buffer_size |-> SIZE_OF_INDIRECT_COUNT,
   count_buffer |-> 0]

\* The first dimension of the dispatch in run.
dispatch_truncating(n, sg) == n \div sg

DispatchGroups(n, sg) == (n + sg - 1) \div sg

\* An invocation of the compute shader: its state and the slot it took.
Invocation(st, sl) == [st |-> st, slot |-> sl]

\* CullingPass::new keeps the subgroup size the device reports.
CullingPass_new ==
  /\ cull_pc = "none"
  /\ \E sg \in 1..MaxSubgroup : subgroup_size' = sg
  /\ cull_pc' = "created"
  /\ UNCHANGED <<sceneVars, object_count, output_buffer_size,
                 indirect_buffer_size, count_buffer_size, count_buffer,
                 indirect_buffer, push_constant, dispatched, visible,
                 invocation, tested, cull_error>>

\* prepare: fresh buffers sized to the frame's object count.
prepare ==
  /\ cull_pc \in {"created", "done"}
  /\ \E n \in 0..MaxCullObjects :
       LET d == CullingPass_prepare(n) IN
       /\ object_count' = d.object_count
       /\ output_buffer_size' = d.output_buffer_size
       /\ indirect_buffer_size' = d.indirect_buffer_size
       /\ count_buffer_size' = d.count_buffer_size
       /\ count_buffer' = d.count_buffer
       /\ indirect_buffer' =
            [i \in 1..(d.indirect_buffer_size \div SIZE_OF_INDIRECT_CALL) |-> -1]
  /\ cull_pc' = "prepared"
  /\ invocation' = <<>>
  /\ tested' = <<>>
  /\ visible' = {}
  /\ UNCHANGED <<sceneVars, subgroup_size, push_constant, dispatched, cull_error>>

\* run: pushes the object count and dispatches the groups; the frame's
\* camera decides which objects pass the test.
run ==
  /\ cull_pc = "prepared"
  /\ push_constant' = object_count
  /\ dispatched' = <<DispatchGroups(object_count, subgroup_size), 1, 1>>
  /\ invocation' = [i \in 1..(dispatched'[1] * dispatched'[2] * dispatched'[3]
                                * subgroup_size) |->
                      Invocation("pending", 0)]
  /\ tested' = [o \in 1..object_count |-> 0]
  /\ \E vis \in SUBSET (1..object_count) : visible' = vis
  /\ cull_pc' = "running"
  /\ UNCHANGED <<sceneVars, subgroup_size, object_count, output_buffer_size,
                 indirect_buffer_size, count_buffer_size, count_buffer,
                 indirect_buffer, cull_error>>

\* One invocation tests its object; a passing one takes its output slot by
\* an atomic increment of the counter.
cull_test(i) ==
  /\ cull_pc = "running"
  /\ invocation[i].st = "pending"
  /\ IF i > push_constant
       THEN /\ invocation' = [invocation EXCEPT ![i] = Invocation("exit", 0)]
            /\ UNCHANGED <<count_buffer, tested>>
       ELSE /\ tested' = [tested EXCEPT ![i] = @ + 1]
            /\ IF i \in visible
                 THEN /\ invocation' = [invocation EXCEPT ![i] =
                                          Invocation("slot", count_buffer)]
                      /\ count_buffer' = count_buffer + 1
                 ELSE /\ invocation' = [invocation EXCEPT ![i] =
                                          Invocation("failed", 0)]
                      /\ UNCHANGED count_buffer
  /\ UNCHANGED <<sceneVars, cull_pc, subgroup_size, object_count,
                 output_buffer_size, indirect_buffer_size, count_buffer_size,
                 indirect_buffer, push_constant, dispatched, visible, cull_error>>

\* A passing invocation writes its draw descriptor to the slot it took.
cull_write(i) ==
  /\ cull_pc = "running"
  /\ invocation[i].st = "slot"
  /\ IF invocation[i].slot + 1 \in DOMAIN indirect_buffer
       THEN /\ indirect_buffer' =
                 [indirect_buffer EXCEPT ![invocation[i].slot + 1] = i]
            /\ UNCHANGED cull_error
       ELSE /\ cull_error' = TRUE
            /\ UNCHANGED indirect_buffer
  /\ invocation' = [invocation EXCEPT ![i].st = "passed"]
  /\ UNCHANGED <<sceneVars, cull_pc, subgroup_size, object_count,
                 output_buffer_size, indirect_buffer_size, count_buffer_size,
                 count_buffer, push_constant, dispatched, visible, tested>>

\* The dispatch is over when every invocation has finished.
cull_complete ==
  /\ cull_pc = "running"
  /\ \A i \in DOMAIN invocation : invocation[i].st \in {"exit", "failed", "passed"}
  /\ cull_pc' = "done"
  /\ UNCHANGED <<sceneVars, subgroup_size, object_count, output_buffer_size,
                 indirect_buffer_size, count_buffer_size, count_buffer,
                 indirect_buffer, push_constant, dispatched, visible,
                 invocation, tested, cull_error>>

NextCull ==
  \/ CullingPass_new
  \/ prepare
  \/ run
  \/ \E i \in DOMAIN invocation :
       \/ cull_test(i)
       \/ cull_write(i)
  \/ cull_complete

SpecCull == Init /\ [][NextCull]_vars

\* run, called again on the CullingPassData of a pass that is over: the
\* bind group still names the same three buffers, with what they hold.
run_again ==
  /\ cull_pc = "done"
  /\ count_buffer + object_count <= MaxVisibleCount
  /\ push_constant' = object_count
  /\ dispatched' = <<DispatchGroups(object_count, subgroup_size), 1, 1>>
  /\ invocation' = [i \in 1..(dispatched'[1] * dispatched'[2] * dispatched'[3]
                                * subgroup_size) |->
                      Invocation("pending", 0)]
  /\ tested' = [o \in 1..object_count |-> 0]
  /\ \E vis \in SUBSET (1..object_count) : visible' = vis
  /\ cull_pc' = "running"
  /\ UNCHANGED <<sceneVars, subgroup_size, object_count, output_buffer_size,
                 indirect_buffer_size, count_buffer_size, count_buffer,
                 indirect_buffer, cull_error>>

NextCullReuse ==
  \/ NextCull
  \/ run_again

SpecCullReuse == Init /\ [][NextCullReuse]_vars

(* ------------------------------- claims -------------------------------- *)
IdsOf(q) == [j \in 1..Len(q) |-> q[j].id]
Upto(n) == [j \in 1..n |-> j]
NoDuplicates(q) == \A i, j \in 1..Len(q) : i # j => q[i] # q[j]
RenderTask == "r1"

RegistryOf(kind) ==
  CASE kind = "mesh" -> mesh_manager.registry
    [] kind = "texture" -> texture_manager.registry
    [] kind = "material" -> material_manager.registry
    [] OTHER -> object_manager.registry

\* C1: the instructions applied so far, followed by the part of the consumer
\* list still to drain and by the producer list, are exactly the pushed
\* instructions in the order of their pushes: none is lost, none is applied
\* twice, and the drained batches concatenate to the push order.
C1_QueueLossless ==
  drained \o IdsOf(SubSeq(consumer, drainPos + 1, Len(consumer))) \o IdsOf(producer)
    = Upto(pushed)

\* An earlier frame drained one instruction, the current one is halfway
\* through a batch of two, and a later push waits in the producer list.
C1_Witness ==
  /\ Len(drained) = 2
  /\ drainPos = 1
  /\ Len(consumer) = 2
  /\ Len(producer) = 1

\* C2: from the swap of a frame to the end of its drain the consumer list is
\* the list that swap made the batch; pushes of that time are in the
\* producer list.
C2_ConsumerStable ==
  render_pc[RenderTask] \in {"swapped", "drain"} => consumer = snapshot

\* A push completed while the batch was being drained, and a further call is
\* between its allocation and its push.
C2_Witness ==
  /\ render_pc[RenderTask] = "drain"
  /\ drainPos = 1
  /\ consumer # <<>>
  /\ producer # <<>>
  /\ \E t \in AppThreads : pc[t] = "push"

\* C3: per registry, the handles allocated and not removed are pairwise
\* different, and each names an allocated slot in its current generation.
C3_HandleUniqueness ==
  \A k \in Kinds :
    /\ NoDuplicates(outstanding[k])
    /\ \A j \in 1..Len(outstanding[k]) : Allocated(RegistryOf(k), outstanding[k][j])

\* Two threads are both between allocate and push, one of them on a reused
\* slot, with two handles of the kind live.
C3_Witness ==
  /\ \A t \in AppThreads : pc[t] = "push"
  /\ \E k \in Kinds :
       /\ Len(outstanding[k]) = 2
       /\ \E j \in 1..2 : outstanding[k][j].gen > 0
       /\ \A t \in AppThreads : KindOf(pend[t].op) = k

\* C10: an AddObject instruction is applied only after the AddMesh
\* instruction of the mesh it references has been applied.
C10_MeshAppliedBeforeObject ==
  lastApplied.instr.op = "AddObject" =>
    lastApplied.instr.object.mesh \in filledMeshes

\* An AddObject is applied, with success, in the batch that also held the
\* AddMesh of its mesh.
C10_Witness ==
  /\ lastApplied.instr.op = "AddObject"
  /\ lastApplied.res = "ok"
  /\ \E j \in 1..drainPos :
       /\ consumer[j].op = "AddMesh"
       /\ consumer[j].handle = lastApplied.instr.object.mesh

SeqToSet(q) == {q[j] : j \in 1..Len(q)}
FrameOver == render_pc[RenderTask] \notin {"drain", "compact"}
ObjectHandlesInValues ==
  SeqToSet(ValueHandlesFrom(object_manager.registry, 1, NoInternalObject))

\* C4: once RemoveObject(O1) has been applied and the frame is over, ready()
\* has returned the registry's values and O1 is not among them; a handle
\* allocated on O1's index carries a greater generation; and a
\* SetObjectTransform through the old handle fails with UnknownHandle and
\* changes nothing.
C4_RemovedObjectGone ==
  /\ \A h \in removed :
       /\ ~Live(object_manager.registry, h)
       /\ \A j \in 1..Len(outstanding["object"]) :
            outstanding["object"][j].idx = h.idx => outstanding["object"][j].gen > h.gen
       /\ FrameOver => h \notin ObjectHandlesInValues
  /\ FrameOver =>
       readyOut = ResourceRegistry_values(object_manager.registry, NoInternalObject)
  /\ (lastApplied.instr.op = "SetObjectTransform" /\ lastApplied.instr.handle \in removed)
       => (lastApplied.res = "UnknownHandle" /\ ~lastApplied.changed)

\* The old handle is used while a new object lives in its slot.
C4_Witness ==
  /\ lastApplied.instr.op = "SetObjectTransform"
  /\ lastApplied.instr.handle \in removed
  /\ Live(object_manager.registry,
          Handle(lastApplied.instr.handle.idx, lastApplied.instr.handle.gen + 1))

\* C5: the object just filled has the start index, index count and vertex
\* offset of its mesh's internal record and the material and transform of
\* the public object, the count being 36 for the cube; and after add_mesh,
\* add_material and add_object and one frame, ready() has returned exactly
\* that one object.
C5_FillCopiesDrawRange ==
  /\ (lastApplied.instr.op = "AddObject" /\ lastApplied.res = "ok") =>
       LET o == object_manager.registry.slots[lastApplied.instr.handle.idx].val
           m == MeshManager_internal_data(mesh_manager, lastApplied.instr.object.mesh)
       IN /\ o.start_idx = m.index_range.start
          /\ o.count = m.index_range.end - m.index_range.start
          /\ o.vertex_offset = m.vertex_range.start
          /\ o.material = lastApplied.instr.object.material
          /\ o.transform = lastApplied.instr.object.transform
          /\ m.bounding_sphere = "cube" => o.count = 36
  /\ ( /\ pushed = 3
       /\ Len(drained) = 3
       /\ Live(object_manager.registry, Handle(1, 0))
       /\ Len(mesh_manager.registry.slots) = 1
       /\ Len(material_manager.registry.slots) = 1
       /\ render_pc[RenderTask] = "idle" ) =>
       readyOut = <<InternalObject(Handle(1, 0), "identity", "cube", 0, 36, 0)>>

\* The frame after add_mesh, add_material and add_object is over.
C5_Witness ==
  /\ pushed = 3
  /\ Len(drained) = 3
  /\ calls = 3
  /\ Live(object_manager.registry, Handle(1, 0))
  /\ Len(mesh_manager.registry.slots) = 1
  /\ Len(material_manager.registry.slots) = 1
  /\ render_pc[RenderTask] = "idle"
  /\ Len(readyOut) = 1

\* C9: ready() called on the result of ready() hands no slot to the
\* callback, leaves the manager as it is and returns the same values; and
\* the callback has run at most once per handle, only for removed handles,
\* and for every removed handle once the frame is over.
C9_CompactionIdempotent ==
  /\ LET first == ObjectManager_ready(object_manager)
         second == ObjectManager_ready(first.mgr)
     IN /\ second.callbacks = <<>>
        /\ second.mgr = first.mgr
        /\ second.out = first.out
  /\ NoDuplicates(callbacks)
  /\ SeqToSet(callbacks) \subseteq removed
  /\ FrameOver => SeqToSet(callbacks) = removed

\* One removed object has been torn down and another is pending removal.
C9_Witness ==
  /\ callbacks # <<>>
  /\ DeadFrom(object_manager.registry, 1) # <<>>

CeilDiv(n, d) == CHOOSE g \in 0..n : g * d >= n /\ (g = 0 \/ (g - 1) * d < n)
Count(q, st) == Cardinality({i \in DOMAIN q : q[i].st = st})
EntriesWritten == Cardinality({j \in DOMAIN indirect_buffer : indirect_buffer[j] # -1})

\* C6: run dispatches ceil(N / s) groups in the first dimension and 1 in the
\* others; the s * groups invocations cover every object; no object is
\* tested twice, and when the pass is over each has been tested once.
C6_CeilingDispatch ==
  cull_pc \in {"running", "done"} =>
    /\ dispatched = <<CeilDiv(object_count, subgroup_size), 1, 1>>
    /\ Len(invocation) = subgroup_size * dispatched[1]
    /\ Len(invocation) >= object_count
    /\ \A o \in 1..object_count : tested[o] <= 1
    /\ cull_pc = "done" => \A o \in 1..object_count : tested[o] = 1

\* A pass is over whose object count is not a multiple of the subgroup size.
C6_Witness ==
  /\ cull_pc = "done"
  /\ object_count > 0
  /\ object_count % subgroup_size # 0
  /\ Len(invocation) > object_count

\* C7: when the pass is over, the objects classified visible and those
\* classified not visible add up to N, and the count buffer holds the number
\* of entries written to the indirect buffer.
C7_CullingComplete ==
  cull_pc = "done" =>
    /\ Count(invocation, "passed") + Count(invocation, "failed") = object_count
    /\ count_buffer = EntriesWritten
    /\ count_buffer = Count(invocation, "passed")

\* A pass is over in which a later object took an earlier slot.
C7_Witness ==
  /\ cull_pc = "done"
  /\ object_count = 3
  /\ count_buffer = 2
  /\ indirect_buffer[1] = 3
  /\ Count(invocation, "failed") = 1

\* C8: with zero objects prepare makes the output and indirect buffers 0
\* bytes long and the count buffer 4 bytes holding 0; run dispatches zero
\* groups, no invocation runs and no error is raised.
C8_EmptyScene ==
  (cull_pc \in {"prepared", "running", "done"} /\ object_count = 0) =>
    /\ output_buffer_size = 0
    /\ indirect_buffer_size = 0
    /\ indirect_buffer = <<>>
    /\ count_buffer_size = 4
    /\ count_buffer = 0
    /\ ~cull_error
    /\ cull_pc \in {"running", "done"} => (dispatched = <<0, 1, 1>> /\ invocation = <<>>)

\* The pass has run to its end on an empty scene.
C8_Witness ==
  /\ cull_pc = "done"
  /\ object_count = 0
  /\ dispatched[1] = 0

(* ----------------------- the managers, called directly ---------------- *)
(* The methods of the object manager applied to any handle, as the render  *)
(* loop may apply them: handles never allocated, removed or stale included.*)
ManagerHandles == {Handle(i, g) : i \in 1..MaxSlots, g \in 0..MaxGen}
MeshHandles == {Handle(i, 0) : i \in 1..MaxMeshes}
TheMaterial == Handle(1, 0)

InitManager == SceneInit(MaxManagerCalls) /\ CullInit

\* What a direct call leaves alone, and its entry in the history.
Called(op, h, object, transform, res, returned, changed) ==
  /\ calls < budget
  /\ calls' = calls + 1
  /\ lastApplied' = [instr |-> Instruction(0, op, h, "none", object, transform),
                      res |-> res, returned |-> returned, changed |-> changed]
  /\ UNCHANGED <<queueVars, managerLock, readers, texture_manager, material_manager,
                 options, pc, pend, budget, issued, render_pc, drainPos,
                 pushed, drained, snapshot, frameStart, outstanding, removed,
                 filledMeshes, cullVars>>

\* A mesh is allocated and filled.
call_add_mesh ==
  /\ Len(mesh_manager.registry.slots) < MaxMeshes
  /\ LET a == Manager_allocate(mesh_manager, NoMesh)
         r == MeshManager_fill(a.mgr, a.handle, "cube")
     IN /\ mesh_manager' = r.mgr
        /\ Called("AddMesh", a.handle, NoObject, "none", r.res, r.res, TRUE)
  /\ UNCHANGED <<object_manager, readyOut, callbacks>>

\* A live mesh is filled again: its record moves to new ranges.
call_refill_mesh ==
  \E h \in MeshHandles :
    /\ Live(mesh_manager.registry, h)
    /\ LET r == MeshManager_fill(mesh_manager, h, "cube")
       IN /\ mesh_manager' = r.mgr
          /\ Called("AddMesh", h, NoObject, "none", r.res, r.res,
                    r.mgr # mesh_manager)
    /\ UNCHANGED <<object_manager, readyOut, callbacks>>

call_remove_mesh_cascading ==
  \E h \in MeshHandles :
    /\ LET r == Manager_remove(mesh_manager, h)
           gone == {o \in ManagerHandles :
                      /\ Live(object_manager.registry, o)
                      /\ Live(mesh_manager.registry, h)
                      /\ object_manager.registry.slots[o.idx].val.start_idx
                           = mesh_manager.registry.slots[h.idx].val.index_range.start}
       IN /\ mesh_manager' = r.mgr
          /\ object_manager' =
               [object_manager EXCEPT !.registry.slots =
                  [j \in DOMAIN @ |->
                     IF Handle(j, @[j].gen) \in gone
                       THEN [@[j] EXCEPT !.state = "dead"] ELSE @[j]]]
          /\ Called("RemoveMesh", h, NoObject, "none", r.res, r.res,
                    r.mgr # mesh_manager)
    /\ UNCHANGED <<readyOut, callbacks>>

call_remove_mesh ==
  \E h \in MeshHandles :
    /\ LET r == Manager_remove(mesh_manager, h)
       IN /\ mesh_manager' = r.mgr
          /\ Called("RemoveMesh", h, NoObject, "none", r.res, r.res,
                    r.mgr # mesh_manager)
    /\ UNCHANGED <<object_manager, readyOut, callbacks>>

\* What a direct call on the material manager leaves alone.
MaterialCalled(op, h, res, changed) ==
  /\ calls < budget
  /\ calls' = calls + 1
  /\ lastApplied' = [instr |-> Instruction(0, op, h, "none", NoObject, "none"),
                      res |-> res, returned |-> res, changed |-> changed]
  /\ UNCHANGED <<queueVars, managerLock, readers, mesh_manager, texture_manager,
                 object_manager, options, pc, pend, budget, issued, render_pc,
                 drainPos, readyOut, pushed, drained, snapshot, frameStart,
                 callbacks, outstanding, removed, filledMeshes, cullVars>>

\* The material is allocated and filled.
call_add_material ==
  /\ Len(material_manager.registry.slots) < MaxMaterials
  /\ LET a == Manager_allocate(material_manager, "none")
         r == PayloadManager_fill(a.mgr, a.handle, "mat")
     IN /\ material_manager' = r.mgr
        /\ MaterialCalled("AddMaterial", a.handle, r.res, TRUE)

call_remove_material ==
  LET r == Manager_remove(material_manager, TheMaterial)
  IN /\ material_manager' = r.mgr
     /\ MaterialCalled("RemoveMaterial", TheMaterial, r.res,
                       r.mgr # material_manager)

call_allocate ==
  /\ AllocHandle(object_manager.registry) \in ManagerHandles
  /\ LET a == ObjectManager_allocate(object_manager)
     IN /\ object_manager' = a.mgr
        /\ Called("Allocate", a.handle, NoObject, "none", "ok", "ok", TRUE)
  /\ UNCHANGED <<mesh_manager, readyOut, callbacks>>

call_fill ==
  \E h \in ManagerHandles, m \in MeshHandles, t \in ObjectTransforms :
    /\ LET r == ObjectManager_fill(object_manager, h, Object(m, TheMaterial, t),
                                   mesh_manager)
       IN /\ object_manager' = r.mgr
          /\ Called("AddObject", h, Object(m, TheMaterial, t), "none",
                    r.res, r.returned, r.mgr # object_manager)
    /\ UNCHANGED <<mesh_manager, readyOut, callbacks>>

call_set_object_transform ==
  \E h \in ManagerHandles, t \in NewTransforms :
    /\ LET r == ObjectManager_set_object_transform(object_manager, h, t)
       IN /\ object_manager' = r.mgr
          /\ Called("SetObjectTransform", h, NoObject, t,
                    r.res, r.returned, r.mgr # object_manager)
    /\ UNCHANGED <<mesh_manager, readyOut, callbacks>>

call_remove ==
  \E h \in ManagerHandles :
    /\ LET r == Manager_remove(object_manager, h)
       IN /\ object_manager' = r.mgr
          /\ Called("RemoveObject", h, NoObject, "none", r.res, r.res,
                    r.mgr # object_manager)
    /\ UNCHANGED <<mesh_manager, readyOut, callbacks>>

\* The end of a frame: every manager compacts, ready() gives the objects.
call_ready ==
  /\ LET r == ObjectManager_ready(object_manager)
     IN /\ object_manager' = r.mgr
        /\ readyOut' = r.out
        /\ callbacks' = callbacks \o r.callbacks
        /\ Called("Ready", NoHandle, NoObject, "none", "ok", "ok",
                  r.mgr # object_manager)
  /\ mesh_manager' = Manager_remove_all_dead(mesh_manager, NoMesh)

NextManager ==
  \/ call_add_mesh
  \/ call_refill_mesh
  \/ call_remove_mesh
  \/ call_add_material
  \/ call_remove_material
  \/ call_allocate
  \/ call_fill
  \/ call_set_object_transform
  \/ call_remove
  \/ call_ready

SpecManager == InitManager /\ [][NextManager]_vars

(* Frames keep being rendered: render() is called again whenever the       *)
(* previous frame is over, and the spawned task runs to its end.           *)
Frame == \E k \in RenderTasks : render(k) \/ render_loop(k)

SpecFrames == Init /\ [][Next]_vars /\ WF_vars(Frame)

ExchangeStep == render_pc[RenderTask] = "swap" /\ render_pc'[RenderTask] = "swapped"
DrainEndStep == render_pc[RenderTask] = "drain" /\ render_pc'[RenderTask] = "compact"

\* C11: at the exchange of a frame every instruction pushed so far and not
\* yet applied is in the frame's batch, and when the frame's drain ends all
\* of them have been applied; and while frames keep being rendered, a
\* moment always comes at which every instruction pushed until then has
\* been applied, so that every pushed instruction is applied at some time
\* (pushed never decreases and drained never loses an id).
C11_ConsumedAtNextSwap ==
  /\ [][ /\ ExchangeStep => drained \o IdsOf(consumer') = Upto(pushed)
         /\ DrainEndStep =>
              SeqToSet(IdsOf(snapshot)) \subseteq SeqToSet(drained') ]_vars
  /\ [][pushed' >= pushed /\ SeqToSet(drained) \subseteq SeqToSet(drained')]_vars
  /\ []<>(\A i \in 1..pushed : i \in SeqToSet(drained))

\* A frame has applied a batch of two while a later push waits for the next.
C11_Witness ==
  /\ render_pc[RenderTask] = "compact"
  /\ Len(drained) = 2
  /\ pushed = 3
  /\ Len(producer) = 1

ObjectRegistry == object_manager.registry
FilledHandles(reg) ==
  {Handle(i, reg.slots[i].gen) : i \in {j \in 1..Len(reg.slots) :
                                         reg.slots[j].state = "filled"}}
DirectCall(op) == calls' = calls + 1 /\ lastApplied'.instr.op = op

\* C12: set_object_transform on a live object gives that object's record
\* the new transform and leaves its other fields, every other slot, the
\* free list, the set of live handles and the mesh manager as they were.
C12_OnlyTransformChanges ==
  [][ (DirectCall("SetObjectTransform")
        /\ Live(ObjectRegistry, lastApplied'.instr.handle)) =>
      LET h == lastApplied'.instr.handle
          old == ObjectRegistry
          new == object_manager'.registry
      IN /\ new.free = old.free
         /\ Len(new.slots) = Len(old.slots)
         /\ \A i \in 1..Len(old.slots) : i # h.idx => new.slots[i] = old.slots[i]
         /\ new.slots[h.idx] =
              [old.slots[h.idx] EXCEPT !.val.transform = lastApplied'.instr.transform]
         /\ FilledHandles(new) = FilledHandles(old)
         /\ mesh_manager' = mesh_manager ]_vars

\* One of two live objects has been moved.
C12_Witness ==
  /\ lastApplied.instr.op = "SetObjectTransform"
  /\ lastApplied.res = "ok"
  /\ lastApplied.changed
  /\ Cardinality(FilledHandles(ObjectRegistry)) = 2
  /\ \E i \in 1..Len(ObjectRegistry.slots) :
       /\ ObjectRegistry.slots[i].val.transform = "moved"
       /\ ObjectRegistry.slots[i].val.count = 36

\* C13: a call on a handle never allocated, removed or of a stale
\* generation hands its caller the InvalidHandle or UnknownHandle error and
\* changes nothing.
C13_ErrorsReported ==
  lastApplied.res \in {"UnknownHandle", "InvalidHandle"} =>
    (lastApplied.returned = lastApplied.res /\ ~lastApplied.changed)

\* C14: a fill whose handle is allocated in the slot's generation puts the
\* derived value into the slot, replacing the value of a filled slot
\* without adding an entry; a fill whose handle has another generation than
\* the slot fails with InvalidHandle and leaves the registry as it was.
C14_InsertSemantics ==
  [][ (DirectCall("AddObject")
        /\ Live(mesh_manager.registry, lastApplied'.instr.object.mesh)) =>
      LET h == lastApplied'.instr.handle
          object == lastApplied'.instr.object
          mesh == mesh_manager.registry.slots[object.mesh.idx].val
          old == ObjectRegistry
          new == object_manager'.registry
      IN /\ Allocated(old, h) =>
              /\ lastApplied'.res = "ok"
              /\ new.slots[h.idx].gen = h.gen
              /\ new.slots[h.idx].state = "filled"
              /\ new.slots[h.idx].val.material = object.material
              /\ new.slots[h.idx].val.transform = object.transform
              /\ new.slots[h.idx].val.start_idx = mesh.index_range.start
              /\ new.slots[h.idx].val.vertex_offset = mesh.vertex_range.start
              /\ \A i \in 1..Len(old.slots) : i # h.idx => new.slots[i] = old.slots[i]
              /\ Len(new.slots) = Len(old.slots)
              /\ new.free = old.free
              /\ Live(old, h) => FilledHandles(new) = FilledHandles(old)
         /\ (h.idx \in 1..Len(old.slots) /\ old.slots[h.idx].gen # h.gen) =>
              /\ lastApplied'.res = "InvalidHandle"
              /\ new = old ]_vars

\* A fill through a stale handle has failed on a slot that holds the value
\* of the handle's successor.
C14_Witness ==
  /\ lastApplied.instr.op = "AddObject"
  /\ lastApplied.res = "InvalidHandle"
  /\ lastApplied.instr.handle.idx \in 1..Len(ObjectRegistry.slots)
  /\ ObjectRegistry.slots[lastApplied.instr.handle.idx].state = "filled"
  /\ ObjectRegistry.slots[lastApplied.instr.handle.idx].gen >
       lastApplied.instr.handle.gen

(* ------------------------ the locks of the API calls ------------------- *)
(* add_mesh and set_options statement by statement: each lock guard is a   *)
(* temporary that is dropped at the end of its statement.                  *)
InitLocks == SceneInit(MaxLockCalls) /\ CullInit

read_guard_kept(rs, t) == rs

\* The read guard of `self.mesh_manager.read().allocate()` is dropped.
ReleaseRead(rs, t) == rs \ {t}

\* add_mesh is called.
enter_add_mesh(t) ==
  /\ Begin(t)
  /\ pc' = [pc EXCEPT ![t] = "enter"]
  /\ pend' = [pend EXCEPT ![t] =
                Instruction(0, "AddMesh", NoHandle, "cube", NoObject, "none")]
  /\ calls' = calls + 1
  /\ UNCHANGED <<queueVars, managerLock, readers, managerVars, budget, issued,
                 renderVars, histVars, cullVars>>

\* self.mesh_manager.read(): waits while the render loop holds the write lock.
read_lock(t) ==
  /\ pc[t] = "enter"
  /\ managerLock = ""
  /\ readers' = readers \cup {t}
  /\ pc' = [pc EXCEPT ![t] = "read"]
  /\ UNCHANGED <<queueVars, managerLock, managerVars, pend, calls, budget,
                 issued, renderVars, histVars, cullVars>>

\* .allocate(), after which the statement ends.
allocate_unlock(t) ==
  /\ pc[t] = "read"
  /\ LET a == Manager_allocate(mesh_manager, NoMesh)
     IN /\ mesh_manager' = a.mgr
        /\ pend' = [pend EXCEPT ![t].handle = a.handle]
        /\ outstanding' = [outstanding EXCEPT !["mesh"] = Append(@, a.handle)]
  /\ readers' = ReleaseRead(readers, t)
  /\ pc' = [pc EXCEPT ![t] = "push"]
  /\ UNCHANGED <<queueVars, managerLock, texture_manager, material_manager,
                 object_manager, options, calls, budget, issued, renderVars,
                 pushed, drained, lastApplied, snapshot, frameStart, callbacks,
                 removed, filledMeshes, cullVars>>

\* set_options is called: it has the push only.
enter_set_options(t) ==
  /\ Begin(t)
  /\ \E o \in OptionValues :
       pend' = [pend EXCEPT ![t] =
                  Instruction(0, "SetOptions", NoHandle, o, NoObject, "none")]
  /\ pc' = [pc EXCEPT ![t] = "push"]
  /\ calls' = calls + 1
  /\ UNCHANGED <<queueVars, managerLock, readers, managerVars, budget, issued,
                 renderVars, histVars, cullVars>>

\* self.instructions.producer.lock()
producer_lock(t) ==
  /\ pc[t] = "push"
  /\ producerLock = ""
  /\ producerLock' = t
  /\ pc' = [pc EXCEPT ![t] = "locked"]
  /\ UNCHANGED <<producer, consumer, consumerLock, managerLock, readers,
                 managerVars, pend, calls, budget, issued, renderVars,
                 histVars, cullVars>>

\* .push(instruction), after which the statement ends and the call returns.
push_unlock(t) ==
  /\ pc[t] = "locked"
  /\ LET p == push(producer, consumer, [pend[t] EXCEPT !.id = pushed + 1])
     IN producer' = p.produce /\ consumer' = p.consume
  /\ pushed' = pushed + 1
  /\ producerLock' = ""
  /\ readers' = readers \ {t}
  /\ issued' = IF pend[t].op = "AddMesh"
                 THEN IssuedAtReturn(issued, "mesh", pend[t].handle)
                 ELSE issued
  /\ pc' = [pc EXCEPT ![t] = "idle"]
  /\ pend' = [pend EXCEPT ![t] = NoInstruction]
  /\ UNCHANGED <<consumerLock, managerLock, managerVars, calls, budget,
                 renderVars, drained, lastApplied, snapshot, frameStart,
                 callbacks, outstanding, removed, filledMeshes, cullVars>>

\* The statements of a call that has been entered.
Appender(t) ==
  \/ read_lock(t)
  \/ allocate_unlock(t)
  \/ producer_lock(t)
  \/ push_unlock(t)

NextLocks ==
  \/ \E t \in AppThreads :
       \/ enter_add_mesh(t)
       \/ enter_set_options(t)
       \/ Appender(t)
  \/ \E k \in RenderTasks :
       \/ render(k)
       \/ render_loop(k)

\* The locks are eventually fair to each waiting thread, frames keep being
\* rendered and every statement of a running call is executed.
SpecLocks ==
  /\ InitLocks
  /\ [][NextLocks]_vars
  /\ WF_vars(Frame)
  /\ \A t \in AppThreads : SF_vars(Appender(t))

\* C15 as stated: no API call waits for a lock while the render loop holds
\* that lock and applies instructions.
C15_NeverWaitsWhileApplying ==
  \A t \in AppThreads, k \in RenderTasks :
    render_pc[k] = "drain" =>
      /\ ~(pc[t] = "enter" /\ managerLock = k)
      /\ ~(pc[t] = "push" /\ producerLock = k)

\* C15, amended: the render loop holds the producer lock only inside swap,
\* so a push never waits for the application of instructions (the
\* allocation of an add_* may wait for the managers' write lock); a thread
\* never holds a read lock and the producer lock together; no party other
\* than swap holds the producer and the consumer lock together; and every
\* call that has been entered returns.
C15_PushNeverWaitsWhileApplying ==
  /\ [](\A k \in RenderTasks : producerLock = k => render_pc[k] = "swap")
  /\ [](\A t \in AppThreads : ~(t \in readers /\ producerLock = t))
  /\ [](producerLock = "" \/ producerLock # consumerLock)
  /\ \A t \in AppThreads : (pc[t] # "idle") ~> (pc[t] = "idle")

\* One thread waits for the read lock and another holds the producer lock
\* while the render loop applies instructions.
C15_Witness ==
  /\ render_pc[RenderTask] = "drain"
  /\ drainPos < Len(consumer)
  /\ managerLock = RenderTask
  /\ \E t, u \in AppThreads : pc[t] = "enter" /\ pc[u] = "locked"

RECURSIVE ApplyAll(_, _)
\* The instructions of q applied one after the other, from scene s.
ApplyAll(q, s) ==
  IF q = <<>> THEN s ELSE ApplyAll(Tail(q), ApplyInstruction(Head(q), s).scene)

\* The instructions of q in the order in which they were pushed.
InPushOrder(q) ==
  [j \in 1..Len(q) |->
     CHOOSE x \in SeqToSet(q) :
       Cardinality({y \in SeqToSet(q) : y.id < x.id}) = j - 1]

SceneNow == Scene(mesh_manager, texture_manager, material_manager,
                  object_manager, options)
BatchDone == render_pc[RenderTask] = "drain" /\ drainPos = Len(consumer)

C17_SwapOnEmptyConsumer ==
  /\ [](render_pc[RenderTask] \in {"idle", "spawned", "swap", "compact"}
         => consumer = <<>> /\ drainPos = 0)
  /\ [][ExchangeStep => consumer = <<>> /\ producer' = <<>> /\ consumer' = producer]_vars
  /\ [][DrainEndStep => drainPos = Len(consumer) /\ consumer' = <<>>]_vars
  /\ [](NoDuplicates(drained))

\* A second exchange is about to happen after a first frame applied a batch,
\* with new pushes waiting.
C17_Witness ==
  /\ render_pc[RenderTask] = "swap"
  /\ Len(drained) >= 2
  /\ producer # <<>>
  /\ consumer = <<>>

\* The fields of an object's record that fill derived.
Cached(reg, h) ==
  LET v == reg.slots[h.idx].val
  IN <<v.material, v.sphere, v.start_idx, v.count, v.vertex_offset>>

ByHandle(op, h) == DirectCall(op) /\ lastApplied'.instr.handle = h

\* C18: a filled object keeps its record and its place in ready() whatever
\* happens to its mesh and its material afterwards: filling or removing a
\* mesh or a material changes nothing in the object manager; a filled
\* object stays filled unless it is itself removed; its sphere, start_idx,
\* count, vertex_offset and material change only when it is itself filled
\* again; and ready() returns the record of every filled object.
C18_RecordKeepsFillTimeValues ==
  [][ /\ ( \/ DirectCall("AddMesh") \/ DirectCall("RemoveMesh")
           \/ DirectCall("AddMaterial") \/ DirectCall("RemoveMaterial") )
          => object_manager' = object_manager
      /\ \A h \in ManagerHandles :
           Live(ObjectRegistry, h) =>
             /\ ByHandle("RemoveObject", h) \/ Live(ObjectRegistry', h)
             /\ (Live(ObjectRegistry', h) /\ ~ByHandle("AddObject", h))
                  => Cached(ObjectRegistry', h) = Cached(ObjectRegistry, h)
             /\ DirectCall("Ready")
                  => \E j \in 1..Len(readyOut') :
                       readyOut'[j] = ObjectRegistry.slots[h.idx].val ]_vars

\* ready() has returned the record of an object whose material was removed
\* and whose mesh was removed or moved to other ranges by a second fill.
C18_Witness ==
  /\ lastApplied.instr.op = "Ready"
  /\ Len(readyOut) = 1
  /\ readyOut[1].count = CubeIndexCount
  /\ Current(material_manager.registry, TheMaterial)
  /\ material_manager.registry.slots[TheMaterial.idx].state = "dead"
  /\ \A m \in MeshHandles :
       Live(mesh_manager.registry, m) =>
         mesh_manager.registry.slots[m.idx].val.index_range.start
           # readyOut[1].start_idx

(* --------------------- the culling pass, run repeatedly ---------------- *)
DispatchStart ==
  /\ cull_pc = "running"
  /\ \A i \in DOMAIN invocation : invocation[i].st = "pending"

\* C19: when a dispatch of the culling pass starts, the count buffer holds
\* 0, whether run follows a prepare or is called again on the same
\* CullingPassData.
C19_CountZeroAtDispatch == DispatchStart => count_buffer = 0

\* The invocations that took a slot, and the slots.
Taken == {i \in DOMAIN invocation : invocation[i].st \in {"slot", "passed"}}
SlotsOf(is) == {invocation[i].slot : i \in is}
WrittenSlots == {j - 1 : j \in {l \in DOMAIN indirect_buffer : indirect_buffer[l] # -1}}

\* C20: in a pass run on the data prepare made for N objects, the object
\* count pushed is N and the buffers are 112 * N and 20 * N bytes; the
\* passing invocations hold pairwise different slots, which are exactly
\* 0..count-1 and all below N; each is written by its own invocation, and
\* when the pass is over the written slots are exactly 0..count-1.
C20_SlotsByAtomicIncrement ==
  cull_pc \in {"running", "done"} =>
    /\ push_constant = object_count
    /\ output_buffer_size = SIZE_OF_OUTPUT_DATA * object_count
    /\ indirect_buffer_size = SIZE_OF_INDIRECT_CALL * object_count
    /\ Len(indirect_buffer) = object_count
    /\ \A i, j \in Taken : i # j => invocation[i].slot # invocation[j].slot
    /\ SlotsOf(Taken) = 0..(count_buffer - 1)
    /\ \A i \in Taken : invocation[i].slot < object_count
    /\ ~cull_error
    /\ WrittenSlots = SlotsOf({i \in Taken : invocation[i].st = "passed"})
    /\ \A i \in Taken :
         invocation[i].st = "passed" => indirect_buffer[invocation[i].slot + 1] = i
    /\ cull_pc = "done" => WrittenSlots = 0..(count_buffer - 1)

\* A pass over three visible objects is over, the increments having
\* happened in another order than the object indices.
C20_Witness ==
  /\ cull_pc = "done"
  /\ object_count = 3
  /\ count_buffer = 3
  /\ indirect_buffer = <<2, 3, 1>>

(* ------------------------- the reuse of slots -------------------------- *)
\* The object handles handed out so far, returned to the caller or not yet.
EarlierObjectHandles ==
  issued["object"] \cup
    {pend[t].handle : t \in {u \in AppThreads :
                               pc[u] = "push" /\ pend[u].op = "AddObject"}}

\* A thread takes the first step of add_object: allocate() returns.
ObjectAllocated(t) ==
  pc[t] = "idle" /\ pc'[t] = "push" /\ pend'[t].op = "AddObject"

ReadyStep == render_pc[RenderTask] = "compact" /\ render_pc'[RenderTask] = "idle"

\* C21: the handle allocate() returns names either a newly appended slot,
\* with generation 0 and an index no earlier handle had, or a slot that was
\* free, with a generation above that of every earlier handle of the index;
\* a slot becomes free only in remove_all_dead and only from pending
\* removal; the free list holds free slots only, each once, and no slot a
\* handle still allocated, filled or pending removal names.
C21_AllocateFreshOrReclaimed ==
  /\ [][\A t \in AppThreads :
          ObjectAllocated(t) =>
            LET h == pend'[t].handle IN
            \/ /\ h.idx = Len(ObjectRegistry.slots) + 1
               /\ h.gen = 0
               /\ \A e \in EarlierObjectHandles : e.idx # h.idx
            \/ /\ h.idx \in 1..Len(ObjectRegistry.slots)
               /\ ObjectRegistry.slots[h.idx].state = "free"
               /\ \A e \in EarlierObjectHandles :
                    e.idx = h.idx => h.gen > e.gen]_vars
  /\ [][\A j \in 1..Len(ObjectRegistry.slots) :
          (ObjectRegistry.slots[j].state # "free"
             /\ ObjectRegistry'.slots[j].state = "free")
            => (ReadyStep /\ ObjectRegistry.slots[j].state = "dead")]_vars
  /\ [](/\ NoDuplicates(ObjectRegistry.free)
        /\ \A j \in 1..Len(ObjectRegistry.slots) :
             (j \in SeqToSet(ObjectRegistry.free))
               <=> ObjectRegistry.slots[j].state = "free")

\* allocate() has handed out, in generation 1, the slot of an object that
\* was removed and reclaimed.
C21_Witness ==
  /\ pc[MainThread] = "push"
  /\ pend[MainThread].op = "AddObject"
  /\ pend[MainThread].handle.gen = 1
  /\ Handle(pend[MainThread].handle.idx, 0) \in removed

(* ------------------- compaction of a registry of three ----------------- *)
(* The object manager called directly on more slots than above, each       *)
(* handle filled once, to follow what ready() does to the order of values. *)
CompactHandles == {Handle(i, g) : i \in 1..MaxCompactSlots, g \in 0..MaxCompactGen}

InitCompaction == SceneInit(MaxMeshes) /\ CullInit

\* What a call on the object manager leaves alone here; the callback ready()
\* passes to remove_all_dead does nothing, and no log of it is kept.
ObjectManagerOnly ==
  UNCHANGED <<queueVars, managerLock, readers, mesh_manager, texture_manager,
              material_manager, options, appVars, render_pc, drainPos, pushed,
              drained, lastApplied, snapshot, frameStart, callbacks, outstanding,
              removed, filledMeshes, cullVars>>

compact_allocate ==
  /\ AllocHandle(object_manager.registry) \in CompactHandles
  /\ object_manager' = ObjectManager_allocate(object_manager).mgr
  /\ UNCHANGED readyOut
  /\ ObjectManagerOnly

compact_fill ==
  \E h \in CompactHandles, m \in MeshHandles, t \in ObjectTransforms :
    /\ Allocated(object_manager.registry, h)
    /\ ~Live(object_manager.registry, h)
    /\ Live(mesh_manager.registry, m)
    /\ object_manager' =
         ObjectManager_fill(object_manager, h, Object(m, TheMaterial, t),
                            mesh_manager).mgr
    /\ UNCHANGED readyOut
    /\ ObjectManagerOnly

compact_remove ==
  \E h \in CompactHandles :
    /\ Allocated(object_manager.registry, h)
    /\ object_manager' = Manager_remove(object_manager, h).mgr
    /\ UNCHANGED readyOut
    /\ ObjectManagerOnly

compact_ready ==
  /\ LET r == ObjectManager_ready(object_manager)
     IN /\ object_manager' = r.mgr
        /\ readyOut' = r.out
  /\ ObjectManagerOnly

NextCompaction ==
  \/ call_add_mesh
  \/ compact_allocate
  \/ compact_fill
  \/ compact_remove
  \/ compact_ready

SpecCompaction == InitCompaction /\ [][NextCompaction]_vars

\* A compaction that reclaims at least one slot.
CompactionStep ==
  \E j \in 1..Len(ObjectRegistry.slots) :
    ObjectRegistry.slots[j].state = "dead" /\ ObjectRegistry'.slots[j].state = "free"

NotPendingRemoval(h) == ObjectRegistry.slots[h.idx].state # "dead"

Position(q, x) == CHOOSE i \in 1..Len(q) : q[i] = x

\* C22: a compaction leaves every filled slot where it is, with its value;
\* any two objects filled before and after it come in the same order in
\* the values before and after; and what ready() returns is the values
\* from before without those of the slots pending removal, in the order
\* they had.
C22_CompactionKeepsOrder ==
  [][CompactionStep =>
       LET before == ValueHandlesFrom(ObjectRegistry, 1, NoInternalObject)
           after == ValueHandlesFrom(ObjectRegistry', 1, NoInternalObject)
           kept == SelectSeq(before, NotPendingRemoval)
       IN /\ \A h \in SeqToSet(before) :
               Live(ObjectRegistry, h) =>
                 /\ Live(ObjectRegistry', h)
                 /\ ObjectRegistry'.slots[h.idx] = ObjectRegistry.slots[h.idx]
          /\ \A g, h \in SeqToSet(before) \cap SeqToSet(after) :
               (Live(ObjectRegistry, g) /\ Live(ObjectRegistry, h)) =>
                 (Position(before, g) < Position(before, h)
                    <=> Position(after, g) < Position(after, h))
          /\ after = kept
          /\ readyOut' = [k \in 1..Len(kept) |-> ObjectRegistry.slots[kept[k].idx].val]
    ]_vars

\* ready() has reclaimed the first of three slots and returned the other
\* two objects, of different meshes, in slot order.
C22_Witness ==
  /\ Len(ObjectRegistry.slots) = 3
  /\ ObjectRegistry.slots[1].state = "free"
  /\ Live(ObjectRegistry, Handle(2, 0))
  /\ Live(ObjectRegistry, Handle(3, 0))
  /\ Len(readyOut) = 2
  /\ readyOut[1] = ObjectRegistry.slots[2].val
  /\ readyOut[2] = ObjectRegistry.slots[3].val
  /\ readyOut[1].start_idx # readyOut[2].start_idx

(* --------------------- render() called while a frame runs -------------- *)
(* Renderer::render spawns a render_loop task at every call and the        *)
(* renderer keeps nothing that makes a task wait for the one before it:    *)
(* two tasks, each with its own place in render_loop.                      *)
OverlapTasks == {"r1", "r2"}

InitOverlap == SceneInitWith(MaxOverlapCalls, OverlapTasks) /\ CullInit

NextOverlap ==
  \/ \E t \in AppThreads : set_options(t)
  \/ \E k \in OverlapTasks :
       \/ render(k)
       \/ render_loop(k)

SpecOverlap == InitOverlap /\ [][NextOverlap]_vars

\* C23: with render() called again before the task of the earlier call has
\* drained its batch, the instructions applied, then the rest of the
\* consumer list, then the producer list are still the pushes in push order,
\* and the consumer list does not change between a task's exchange and the
\* end of that task's drain except by that task.
C23_QueueIntactUnderOverlap ==
  /\ [](drained \o IdsOf(SubSeq(consumer, drainPos + 1, Len(consumer)))
          \o IdsOf(producer) = Upto(pushed))
  /\ [][\A k \in OverlapTasks :
          (render_pc[k] \in {"swapped", "drain"} /\ render_pc'[k] = render_pc[k])
            => consumer' = consumer]_vars

(* ---------------------- what ready() returns --------------------------- *)
\* The render task applies an instruction of the given kind, with success.
Applied(op) ==
  /\ render_pc[RenderTask] = "drain"
  /\ drainPos' = drainPos + 1
  /\ lastApplied'.instr.op = op
  /\ lastApplied'.res = "ok"

AllocatedOnly(reg) ==
  {Handle(i, reg.slots[i].gen) : i \in {j \in 1..Len(reg.slots) :
                                         reg.slots[j].state = "allocated"}}

\* C24: an object handle is filled from the step that applies its AddObject
\* to the step that applies its RemoveObject and at no other time, a handle
\* add_object has allocated being not filled; and ready() returns the
\* values of exactly the filled handles, one entry each, in slot order.
C24_ReadyIsFilledNotRemoved ==
  /\ [][LET old == FilledHandles(ObjectRegistry)
            new == FilledHandles(ObjectRegistry')
            h == lastApplied'.instr.handle
        IN /\ Applied("AddObject") => (h \notin old /\ new = old \cup {h})
           /\ Applied("RemoveObject") => new = old \ {h}
           /\ new # old => (Applied("AddObject") \/ Applied("RemoveObject"))
           /\ \A t \in AppThreads :
                ObjectAllocated(t) =>
                  pend'[t].handle \in AllocatedOnly(ObjectRegistry') \ new]_vars
  /\ [][ReadyStep =>
         LET filled == SelectSeq(ValueHandlesFrom(ObjectRegistry, 1, NoInternalObject),
                                 NotPendingRemoval)
         IN /\ SeqToSet(filled) = FilledHandles(ObjectRegistry)
            /\ Len(readyOut') = Cardinality(FilledHandles(ObjectRegistry))
            /\ readyOut' = [k \in 1..Len(filled) |->
                             ObjectRegistry.slots[filled[k].idx].val]]_vars

\* A frame is over whose ready() returned one object while a second handle,
\* returned by add_object, waits for its AddObject to be applied.
C24_Witness ==
  /\ render_pc[RenderTask] = "idle"
  /\ pc[MainThread] = "idle"
  /\ Len(readyOut) = 1
  /\ Cardinality(FilledHandles(ObjectRegistry)) = 1
  /\ AllocatedOnly(ObjectRegistry) \cap issued["object"] # {}
  /\ \E j \in 1..Len(producer) : producer[j].op = "AddObject"

(* ------------------ the arithmetic of prepare and run ------------------ *)
(* object_count and subgroup_size are u32 and the dispatch expression is   *)
(* evaluated in u32; the buffer sizes are BufferAddress, a u64. A u32 is    *)
(* kept as two 16-bit limbs and a u64 as four, most significant first, so  *)
(* that every intermediate value stays a small integer.                    *)
Limb == 65536

U32(hi, lo) == [hi |-> hi, lo |-> lo]

\* x + k in u32, for k below a limb: the wrapped sum, and whether it wrapped.
u32_add(x, k) ==
  LET lo == x.lo + k
      hi == x.hi + (lo \div Limb)
  IN [value |-> U32(hi % Limb, lo % Limb), overflow |-> hi >= Limb]

\* x - k in u32, for k below a limb.
u32_sub(x, k) ==
  IF x.lo >= k THEN [value |-> U32(x.hi, x.lo - k), overflow |-> FALSE]
  ELSE IF x.hi > 0
    THEN [value |-> U32(x.hi - 1, x.lo + Limb - k), overflow |-> FALSE]
    ELSE [value |-> U32(Limb - 1, x.lo + Limb - k), overflow |-> TRUE]

\* x / d in u32, for d below half a limb: quotient and remainder.
u32_div(x, d) ==
  LET t == (x.hi % d) * Limb + x.lo
  IN [value |-> U32(x.hi \div d, t \div d), rem |-> t % d]

\* (object_count + subgroup_size - 1) / subgroup_size as run evaluates it,
\* from left to right in u32.
dispatch_u32(n, sg) ==
  LET a == u32_add(n, sg)
      b == u32_sub(a.value, 1)
  IN [value |-> u32_div(b.value, sg).value, overflow |-> a.overflow \/ b.overflow]

\* c * (n as u64), for c below a limb.
u64_mul(c, n) ==
  LET p0 == c * n.lo
      p1 == c * n.hi + (p0 \div Limb)
      p2 == p1 \div Limb
  IN [value |-> <<p2 \div Limb, p2 % Limb, p1 % Limb, p0 % Limb>>,
      overflow |-> (p2 \div Limb) >= Limb]

\* What an overflowing u32 operation does: a build with overflow checks
\* panics, one without wraps.
Builds == {"overflow-checks", "wrapping"}

LimbEdges == (0..EdgeWidth) \cup ((Limb - 1 - EdgeWidth)..(Limb - 1))

InitArith ==
  /\ SceneInit(0)
  /\ cull_pc = "created"
  /\ subgroup_size \in 1..MaxArithSubgroup
  /\ object_count \in {U32(hi, lo) : hi \in LimbEdges, lo \in LimbEdges}
  /\ output_buffer_size = <<0, 0, 0, 0>>
  /\ indirect_buffer_size = <<0, 0, 0, 0>>
  /\ count_buffer_size = 0
  /\ count_buffer = 0
  /\ indirect_buffer = <<>>
  /\ push_constant = U32(0, 0)
  /\ dispatched = <<U32(0, 0), 0, 0>>
  /\ visible = {}
  /\ invocation = <<>>
  /\ tested = <<>>
  /\ cull_error = FALSE

\* prepare: the sizes of the three buffers.
prepare_sizes ==
  /\ cull_pc = "created"
  /\ output_buffer_size' = u64_mul(SIZE_OF_OUTPUT_DATA, object_count).value
  /\ indirect_buffer_size' = u64_mul(SIZE_OF_INDIRECT_CALL, object_count).value
  /\ count_buffer_size' = SIZE_OF_INDIRECT_COUNT
  /\ cull_pc' = "prepared"
  /\ UNCHANGED <<sceneVars, subgroup_size, object_count, count_buffer,
                 indirect_buffer, push_constant, dispatched, visible,
                 invocation, tested, cull_error>>

\* run: the push constant and the dispatch; an overflow of the expression
\* panics or wraps, as the build decides.
run_dispatch ==
  /\ cull_pc = "prepared"
  /\ push_constant' = object_count
  /\ LET d == dispatch_u32(object_count, subgroup_size) IN
     \E build \in Builds :
       IF d.overflow /\ build = "overflow-checks"
         THEN cull_pc' = "panicked" /\ UNCHANGED dispatched
         ELSE cull_pc' = "running" /\ dispatched' = <<d.value, 1, 1>>
  /\ UNCHANGED <<sceneVars, subgroup_size, object_count, output_buffer_size,
                 indirect_buffer_size, count_buffer_size, count_buffer,
                 indirect_buffer, visible, invocation, tested, cull_error>>

NextArith ==
  \/ prepare_sizes
  \/ run_dispatch

SpecArith == InitArith /\ [][NextArith]_vars

\* ceil(n / d) of a u32, which is at most n.
u32_ceil_div(n, d) ==
  LET q == u32_div(n, d)
  IN IF q.rem = 0 THEN q.value ELSE u32_add(q.value, 1).value

\* C25: for every object count and subgroup size, run neither panics nor
\* wraps and dispatches ceil(object_count / subgroup_size) groups, and the
\* sizes prepare computes, 112 and 20 times the object count, do not wrap
\* in 64 bits.
C25_DispatchAndSizesExact ==
  /\ cull_pc # "panicked"
  /\ cull_pc = "running" =>
       /\ ~dispatch_u32(object_count, subgroup_size).overflow
       /\ dispatched = <<u32_ceil_div(object_count, subgroup_size), 1, 1>>
  /\ cull_pc \in {"prepared", "running", "panicked"} =>
       /\ ~u64_mul(SIZE_OF_OUTPUT_DATA, object_count).overflow
       /\ ~u64_mul(SIZE_OF_INDIRECT_CALL, object_count).overflow
       /\ output_buffer_size[1] = 0
       /\ indirect_buffer_size[1] = 0
====
